---- MODULE Spec2Model ----
(***************************************************************************)
(* A model of the krate client library (src/src/lib.rs): the client        *)
(* builder, the blocking and the suspending client, the module-level       *)
(* get / get_async functions, the error classifier, and the accessors of   *)
(* the decoded Krate record.                                               *)
(*                                                                         *)
(* Strings that the code inspects character by character (the user agent)  *)
(* are sequences of one-character strings.  An Option<T> is a sequence of  *)
(* length 0 (None) or 1 (Some).  The HTTP transport (reqwest) and the      *)
(* registry are the environment: every send may fail or answer with any    *)
(* status, and every body read may yield any document.                     *)
(***************************************************************************)
EXTENDS Integers, Sequences, FiniteSets, TLC

VARIABLES builder, clients, calls, net, krate, acc

vars == <<builder, clients, calls, net, krate, acc>>

(***************************************************************************)
(* Bounds of the model.                                                    *)
(***************************************************************************)
MaxLen == 3
MaxCalls == 2
MaxVersions == 2

(***************************************************************************)
(* Constants of the program.                                               *)
(***************************************************************************)
CRATES_IO_URL == "https://crates.io/api/v1/crates"
UNIQUE_USER_AGENT == "krates/0.3.0"

None == <<>>
Some(x) == <<x>>

(***************************************************************************)
(* User agent strings.  " " is whitespace that a header value may hold,    *)
(* "\n" is whitespace that a header value may not hold, "a" is a visible   *)
(* character, and "DEL" stands for U+007F, which is not whitespace and     *)
(* which a header value may not hold.                                      *)
(***************************************************************************)
Chars == {" ", "\n", "a", "DEL"}

UserAgents == UNION {[1..n -> Chars] : n \in 0..MaxLen}

ShortUserAgents == {ua \in UserAgents : Len(ua) <= 1}

IsWhitespace(ch) == ch \in {" ", "\n"}

RECURSIVE TrimStart(_)
TrimStart(s) ==
    IF s = <<>> THEN s
    ELSE IF IsWhitespace(Head(s)) THEN TrimStart(Tail(s))
    ELSE s

RECURSIVE TrimEnd(_)
TrimEnd(s) ==
    IF s = <<>> THEN s
    ELSE IF IsWhitespace(s[Len(s)]) THEN TrimEnd(SubSeq(s, 1, Len(s) - 1))
    ELSE s

trim(s) == TrimEnd(TrimStart(s))

no_trim_empty_user_agent(user_agent) == Len(user_agent) = 0

has_empty_user_agent(user_agent) == Len(trim(user_agent)) = 0

\* format!("{} - Brought to you by: {UNIQUE_USER_AGENT}", user_agent)
operator_user_agent(user_agent) ==
    user_agent \o <<" ", "-", " ", "Brought to you by:", " ", UNIQUE_USER_AGENT>>

\* format!("{CRATES_IO_URL}/{crate_name}")
Url(crate_name) == <<CRATES_IO_URL, "/", crate_name>>

\* The transport accepts a user agent iff it is a legal header value:
\* every byte is a tab or is >= 32 and is not 127.
HeaderValueValid(value) == \A i \in 1..Len(value) : value[i] \notin {"\n", "DEL"}

(***************************************************************************)
(* Errors.  An anyhow::Error is a record naming what it wraps.             *)
(***************************************************************************)
ConfigMessage == "User Agent must be a string with at least one character"
NotFoundMessage == "Crate name is not found. Did you mispell the crate name?"
OtherMessage == "Server Status Error: {0}"

\* A reqwest::Error: its kind, and the status of a status error (0: none).
ReqwestError(kind, status) == [kind |-> kind, status |-> status]

NoCause == ReqwestError("", 0)

Result(kind, message, cause, value) ==
    [kind |-> kind, message |-> message, cause |-> cause, value |-> value]

Ok(value) == Result("Ok", "", NoCause, Some(value))

\* anyhow::anyhow!(...): an ad hoc error that carries only its message.
ConfigError == Result("anyhow", ConfigMessage, NoCause, None)

\* `?` on a reqwest::Error: the error itself becomes the anyhow::Error.
Propagate(e) == Result("reqwest::Error", "", e, None)

\* KrateError::KrateNotFound and KrateError::OtherKrateError(e), `.into()`.
KrateNotFound == Result("KrateNotFound", NotFoundMessage, NoCause, None)
OtherKrateError(e) == Result("OtherKrateError", OtherMessage, e, None)

Pending == Result("Pending", "", NoCause, None)

not_found_as_other(e) == OtherKrateError(e)

handle_error(e) ==
    IF e.status = 404 THEN KrateNotFound ELSE OtherKrateError(e)

(***************************************************************************)
(* The client builder.                                                     *)
(***************************************************************************)
Client(mode, user_agent) == [mode |-> mode, user_agent |-> user_agent]

\* reqwest's ClientBuilder::user_agent(..).build()
TransportBuild(mode, user_agent) ==
    IF HeaderValueValid(user_agent)
    THEN Ok(Client(mode, user_agent))
    ELSE Propagate(ReqwestError("builder", 0))

KrateClientBuilder_new(user_agent) ==
    [user_agent |-> user_agent, sync |-> None, asnyc |-> None]

build_sync(self) ==
    IF has_empty_user_agent(self.user_agent) THEN ConfigError
    ELSE TransportBuild("blocking", operator_user_agent(self.user_agent))

build_asnyc(self) ==
    IF has_empty_user_agent(self.user_agent) THEN ConfigError
    ELSE TransportBuild("async", operator_user_agent(self.user_agent))

(***************************************************************************)
(* The metadata model: JSON documents and the records decoded from them.   *)
(* A HashMap<String, Vec<String>> is a set of <<key, values>> pairs.       *)
(***************************************************************************)
VersionNums == {"1.0.0", "2.0.0"}

FeatureMaps == {{<<"default", <<"std">>>>}, {<<"full", <<"rt", "macros">>>>}}

JsonAbsent == [type |-> "absent", entries |-> {}]
JsonNull == [type |-> "null", entries |-> {}]
JsonObject(entries) == [type |-> "object", entries |-> entries]

FeatureJsons == {JsonAbsent, JsonNull} \cup {JsonObject(m) : m \in FeatureMaps}

VersionJsons == [num : VersionNums, features : FeatureJsons]

CrateJsons == [name : {"tokio"}, max_version : VersionNums, newest_version : {"2.0.0"}]

\* A response body: whether it is JSON at all, and its "versions" and
\* "crate" members.
Doc(json, versions, crate) == [json |-> json, versions |-> versions, crate |-> crate]

VersionSeqs(n) == UNION {[1..k -> VersionJsons] : k \in 0..n}

Docs == {Doc(TRUE, Some(vs), Some(cr)) : vs \in VersionSeqs(MaxVersions), cr \in CrateJsons}

TokioCrate == [name |-> "tokio", max_version |-> "2.0.0", newest_version |-> "2.0.0"]

NotJsonDoc == Doc(FALSE, None, None)
EmptyVersionsDoc == Doc(TRUE, Some(<<>>), Some(TokioCrate))
OneVersionDoc ==
    Doc(TRUE, Some(<<[num |-> "2.0.0", features |-> JsonNull]>>), Some(TokioCrate))

ServerBodies == {NotJsonDoc, EmptyVersionsDoc, OneVersionDoc}

\* Option<HashMap<..>>: an absent member and a null member both decode to None.
DecodeFeatures(j) == IF j.type = "object" THEN Some(j.entries) ELSE None

DecodeVersion(j) == [num |-> j.num, features |-> DecodeFeatures(j.features)]

\* #[derive(Deserialize)] struct Krate: `versions` and `crate` are required;
\* any array, the empty one included, is a Vec<KrateVersion>.
Decodes(doc) == doc.json /\ doc.versions # None /\ doc.crate # None

Decode(doc) ==
    [versions |-> [i \in 1..Len(doc.versions[1]) |-> DecodeVersion(doc.versions[1][i])],
     krate |-> doc.crate[1]]

Krates == {Decode(d) : d \in {x \in Docs : Decodes(x)}}

\* Krate::get_latest: indexing versions[0] panics on an empty Vec.
get_latest(self) ==
    IF Len(self.versions) = 0
    THEN [panicked |-> TRUE, value |-> None]
    ELSE [panicked |-> FALSE, value |-> Some(self.versions[1].num)]

\* Krate::get_features_for_version: the loop returns at the first version
\* whose num matches and whose features are Some, and goes on otherwise.
RECURSIVE get_features_for_version(_, _)
get_features_for_version(versions, version) ==
    IF versions = <<>> THEN None
    ELSE IF Head(versions).num = version /\ Head(versions).features # None
         THEN Head(versions).features
         ELSE get_features_for_version(Tail(versions), version)

(***************************************************************************)
(* The transport.  A send ends in a failure (0) or in a response with a    *)
(* status; a body read yields a document.                                  *)
(***************************************************************************)
Names == {"tokio", "tokioz"}

Statuses == {200, 304, 404, 500}

SendFailed == 0

SendOutcomes == {SendFailed} \cup Statuses

\* Response::error_for_status: Err for a 4xx or 5xx status, Ok otherwise.
error_for_status(status) ==
    IF status >= 400 /\ status <= 599
    THEN Some(ReqwestError("status", status))
    ELSE None

Request(url, user_agent) == [url |-> url, user_agent |-> user_agent]

NoNet == [requests |-> <<>>, sent |-> None, body |-> None]

send_twice(n, request) == [n EXCEPT !.requests = Append(Append(@, request), request)]

\* RequestBuilder::send: one request leaves.
Send(n, request) == [n EXCEPT !.requests = Append(@, request)]

(***************************************************************************)
(* The fetch handlers.  Each is cut at the points where it waits for the   *)
(* transport: before send() returns and before json() returns.  A handler  *)
(* step yields the call's result, or Pending when the handler goes on to   *)
(* read the body.                                                          *)
(***************************************************************************)
Call(api, pc, client, crate_name, user_agent, decodes, result) ==
    [api |-> api, pc |-> pc, client |-> client, crate_name |-> crate_name,
     user_agent |-> user_agent, decodes |-> decodes, result |-> result]

IdleCall == Call("", "idle", None, "", <<>>, 0, Pending)

json_wraps_decode_error(body) ==
    IF Decodes(body) THEN Ok(Decode(body)) ELSE OtherKrateError(ReqwestError("decode", 0))

\* res.json()?: the decoded record, or the decode error as it is.
json(body) ==
    IF Decodes(body) THEN Ok(Decode(body)) ELSE Propagate(ReqwestError("decode", 0))

\* SyncKrateClient::get from `send()?` to the match on error_for_status.
SyncKrateClient_get_sent(sent) ==
    IF sent = SendFailed THEN Propagate(ReqwestError("request", 0))
    ELSE IF error_for_status(sent) = None THEN Pending
    ELSE handle_error(error_for_status(sent)[1])

SyncKrateClient_get_json(body) == json(body)

\* AsyncKrateClient::get_async from `send().await?` on.
AsyncKrateClient_get_async_sent(sent) ==
    IF sent = SendFailed THEN Propagate(ReqwestError("request", 0))
    ELSE IF error_for_status(sent) = None THEN Pending
    ELSE handle_error(error_for_status(sent)[1])

AsyncKrateClient_get_async_json(body) == json(body)

\* The module-level get from `client.get(url).send()?` on.
get_sent(sent) ==
    IF sent = SendFailed THEN Propagate(ReqwestError("request", 0))
    ELSE IF error_for_status(sent) = None THEN Pending
    ELSE handle_error(error_for_status(sent)[1])

get_json(body) == json(body)

\* The module-level get_async from `client.get(url).send().await?` on.
get_async_sent(sent) ==
    IF sent = SendFailed THEN Propagate(ReqwestError("request", 0))
    ELSE IF error_for_status(sent) = None THEN Pending
    ELSE handle_error(error_for_status(sent)[1])

get_async_json(body) == json(body)

\* The module-level get up to its send: no check of the user agent; the
\* client is built with the formatted header, and `build()?` may fail.
get_client(user_agent) == TransportBuild("blocking", operator_user_agent(user_agent))

\* The module-level get_async up to its send: the user agent is checked first.
get_async_client(user_agent) ==
    IF has_empty_user_agent(user_agent) THEN ConfigError
    ELSE TransportBuild("async", operator_user_agent(user_agent))

cached_request(self, crate_name) ==
    IF \E d \in DOMAIN net : net[d].requests # <<>>
    THEN (net[CHOOSE d \in DOMAIN net : net[d].requests # <<>>]).requests[1]
    ELSE Request(Url(crate_name), self.user_agent)

\* self.client.get(url): the request carries the URL of this call's name and
\* the user agent the client was built with.
ClientRequest(self, crate_name) == Request(Url(crate_name), self.user_agent)

(***************************************************************************)
(* State.                                                                  *)
(***************************************************************************)
CallIds == 1..MaxCalls

SeqCallIds == {1}

ClientIds == {1, 2, 3}

TestUserAgent == <<"Test Mocks for TheLarkInn/krate">>

\* tests::get_sync_krate_client / get_async_krate_client
TestClient(k) ==
    IF k = 1
    THEN build_sync(KrateClientBuilder_new(TestUserAgent)).value[1]
    ELSE build_asnyc(KrateClientBuilder_new(TestUserAgent)).value[1]

NoAcc == [op |-> "", arg |-> "", panicked |-> FALSE, latest |-> None, features |-> None]

Init ==
    /\ builder = KrateClientBuilder_new(TestUserAgent)
    /\ clients = [k \in ClientIds |-> TestClient(k)]
    /\ calls = [c \in CallIds |-> IdleCall]
    /\ net = [c \in CallIds |-> NoNet]
    /\ krate = Decode(OneVersionDoc)
    /\ acc = NoAcc

InitKrate ==
    /\ builder = KrateClientBuilder_new(TestUserAgent)
    /\ clients = [k \in ClientIds |-> TestClient(k)]
    /\ calls = [c \in CallIds |-> IdleCall]
    /\ net = [c \in CallIds |-> NoNet]
    /\ krate \in Krates
    /\ acc = NoAcc

(***************************************************************************)
(* The builder's operations.                                               *)
(***************************************************************************)
New(s) ==
    /\ builder' = KrateClientBuilder_new(s)
    /\ UNCHANGED <<clients, calls, net, krate, acc>>

BuildSync ==
    /\ builder' = [builder EXCEPT !.sync = Some(build_sync(builder))]
    /\ UNCHANGED <<clients, calls, net, krate, acc>>

BuildAsnyc ==
    /\ builder' = [builder EXCEPT !.asnyc = Some(build_asnyc(builder))]
    /\ UNCHANGED <<clients, calls, net, krate, acc>>

(***************************************************************************)
(* The fetch operations.                                                   *)
(***************************************************************************)
\* SyncKrateClient::get up to send().
ClientGet(c, k, crate_name) ==
    /\ calls[c].pc = "idle"
    /\ clients[k].mode = "blocking"
    /\ calls' = [calls EXCEPT ![c] =
            Call("SyncKrateClient::get", "send", Some(k), crate_name, <<>>, 0, Pending)]
    /\ net' = [net EXCEPT ![c] = Send(@, ClientRequest(clients[k], crate_name))]
    /\ UNCHANGED <<builder, clients, krate, acc>>

\* AsyncKrateClient::get_async up to send().await.
ClientGetAsync(c, k, crate_name) ==
    /\ calls[c].pc = "idle"
    /\ clients[k].mode = "async"
    /\ calls' = [calls EXCEPT ![c] =
            Call("AsyncKrateClient::get_async", "send", Some(k), crate_name, <<>>, 0, Pending)]
    /\ net' = [net EXCEPT ![c] = Send(@, ClientRequest(clients[k], crate_name))]
    /\ UNCHANGED <<builder, clients, krate, acc>>

\* A module-level function at its first wait: with a client it has sent its
\* one request, without one it has returned the error.
ModuleCall(api, built, crate_name, user_agent) ==
    IF built.kind = "Ok"
    THEN Call(api, "send", None, crate_name, user_agent, 0, Pending)
    ELSE Call(api, "done", None, crate_name, user_agent, 0, built)

ModuleNet(n, built, crate_name) ==
    IF built.kind = "Ok"
    THEN Send(n, Request(Url(crate_name), built.value[1].user_agent))
    ELSE n

\* get up to send().
ModuleGet(c, crate_name, user_agent) ==
    /\ calls[c].pc = "idle"
    /\ calls' = [calls EXCEPT ![c] =
            ModuleCall("get", get_client(user_agent), crate_name, user_agent)]
    /\ net' = [net EXCEPT ![c] = ModuleNet(@, get_client(user_agent), crate_name)]
    /\ UNCHANGED <<builder, clients, krate, acc>>

\* get_async up to send().await.
ModuleGetAsync(c, crate_name, user_agent) ==
    /\ calls[c].pc = "idle"
    /\ calls' = [calls EXCEPT ![c] =
            ModuleCall("get_async", get_async_client(user_agent), crate_name, user_agent)]
    /\ net' = [net EXCEPT ![c] = ModuleNet(@, get_async_client(user_agent), crate_name)]
    /\ UNCHANGED <<builder, clients, krate, acc>>

SentStep(api, sent) ==
    CASE api = "SyncKrateClient::get" -> SyncKrateClient_get_sent(sent)
      [] api = "AsyncKrateClient::get_async" -> AsyncKrateClient_get_async_sent(sent)
      [] api = "get" -> get_sent(sent)
      [] api = "get_async" -> get_async_sent(sent)

JsonStep(api, body) ==
    CASE api = "SyncKrateClient::get" -> SyncKrateClient_get_json(body)
      [] api = "AsyncKrateClient::get_async" -> AsyncKrateClient_get_async_json(body)
      [] api = "get" -> get_json(body)
      [] api = "get_async" -> get_async_json(body)

\* send() returns: the transport failed, or a response with a status came.
\* The handler runs on to its return or to its read of the body.
SendCompletes(c, sent) ==
    /\ calls[c].pc = "send"
    /\ LET r == SentStep(calls[c].api, sent) IN
         calls' = [calls EXCEPT ![c].pc = IF r = Pending THEN "json" ELSE "done",
                                ![c].result = r]
    /\ net' = [net EXCEPT ![c].sent = Some(sent)]
    /\ UNCHANGED <<builder, clients, krate, acc>>

\* json() returns: the body has been read and decoded, or not.
JsonCompletes(c, body) ==
    /\ calls[c].pc = "json"
    /\ calls' = [calls EXCEPT ![c].pc = "done",
                              ![c].decodes = @ + 1,
                              ![c].result = JsonStep(calls[c].api, body)]
    /\ net' = [net EXCEPT ![c].body = Some(body)]
    /\ UNCHANGED <<builder, clients, krate, acc>>

(***************************************************************************)
(* The accessors of a record.                                              *)
(***************************************************************************)
GetLatest ==
    /\ acc' = [op |-> "get_latest", arg |-> "",
               panicked |-> get_latest(krate).panicked,
               latest |-> get_latest(krate).value, features |-> None]
    /\ UNCHANGED <<builder, clients, calls, net, krate>>

LookupVersions == VersionNums \cup {"9999.0.00"}

GetFeaturesForVersion(version) ==
    /\ acc' = [op |-> "get_features_for_version", arg |-> version,
               panicked |-> FALSE, latest |-> None,
               features |-> get_features_for_version(krate.versions, version)]
    /\ UNCHANGED <<builder, clients, calls, net, krate>>

(***************************************************************************)
(* Specifications.  Spec: callers of all four fetch functions, running     *)
(* concurrently.  SpecClient: concurrent callers of the built clients.     *)
(* SpecSeq: one caller of all four fetch functions, with every user agent. *)
(* SpecBuilder: a builder built both ways.  SpecKrate: the accessors       *)
(* applied to every decoded record.                                        *)
(***************************************************************************)
Next ==
    \E c \in CallIds :
        \/ \E k \in ClientIds, n \in Names : ClientGet(c, k, n)
        \/ \E k \in ClientIds, n \in Names : ClientGetAsync(c, k, n)
        \/ \E n \in Names, ua \in ShortUserAgents : ModuleGet(c, n, ua)
        \/ \E n \in Names, ua \in ShortUserAgents : ModuleGetAsync(c, n, ua)
        \/ \E s \in SendOutcomes : SendCompletes(c, s)
        \/ \E b \in ServerBodies : JsonCompletes(c, b)

Spec == Init /\ [][Next]_vars

NextClient ==
    \E c \in CallIds :
        \/ \E k \in ClientIds, n \in Names : ClientGet(c, k, n)
        \/ \E k \in ClientIds, n \in Names : ClientGetAsync(c, k, n)
        \/ \E s \in SendOutcomes : SendCompletes(c, s)
        \/ \E b \in ServerBodies : JsonCompletes(c, b)

SpecClient == Init /\ [][NextClient]_vars

NextSeq ==
    \E c \in SeqCallIds :
        \/ \E k \in ClientIds, n \in Names : ClientGet(c, k, n)
        \/ \E k \in ClientIds, n \in Names : ClientGetAsync(c, k, n)
        \/ \E n \in Names, ua \in UserAgents : ModuleGet(c, n, ua)
        \/ \E n \in Names, ua \in UserAgents : ModuleGetAsync(c, n, ua)
        \/ \E s \in SendOutcomes : SendCompletes(c, s)
        \/ \E b \in ServerBodies : JsonCompletes(c, b)

SpecSeq == Init /\ [][NextSeq]_vars

NextBuilder ==
    \/ \E s \in UserAgents : New(s)
    \/ BuildSync
    \/ BuildAsnyc

SpecBuilder == Init /\ [][NextBuilder]_vars

NextKrate ==
    \/ GetLatest
    \/ \E v \in LookupVersions : GetFeaturesForVersion(v)

SpecKrate == InitKrate /\ [][NextKrate]_vars

(***************************************************************************)
(* Properties.                                                             *)
(***************************************************************************)
AllWhitespace(s) == \A i \in 1..Len(s) : s[i] \in {" ", "\n"}

Built(r) == r.kind = "Ok"

BuiltResults == {r \in {builder.sync, builder.asnyc} : r # None}

\* C2, as stated: a build succeeds for every identification that is not
\* empty after trimming, fails with the ConfigError otherwise, and both
\* builds decide alike.
C2_BuildSucceedsIffNotBlank ==
    /\ \A r \in BuiltResults :
         IF AllWhitespace(builder.user_agent)
         THEN r[1] = ConfigError
         ELSE Built(r[1])
    /\ (builder.sync # None /\ builder.asnyc # None) =>
         builder.sync[1].kind = builder.asnyc[1].kind

\* C2, amended: a blank identification fails with the ConfigError; one that
\* is not blank builds a client carrying the identification and the suffix
\* when the transport accepts that header value, and fails with the
\* transport's builder error, and no client, when it does not; both builds
\* decide alike.
C2_BuildDecides ==
    /\ \A r \in BuiltResults :
         IF AllWhitespace(builder.user_agent)
         THEN r[1].kind = "anyhow" /\ r[1].message = ConfigMessage /\ r[1].value = None
         ELSE IF \A i \in 1..Len(builder.user_agent) :
                    builder.user_agent[i] \notin {"\n", "DEL"}
         THEN /\ Built(r[1])
              /\ SubSeq(r[1].value[1].user_agent, 1, Len(builder.user_agent))
                     = builder.user_agent
              /\ Len(r[1].value[1].user_agent) > Len(builder.user_agent)
         ELSE r[1].kind = "reqwest::Error" /\ r[1].cause.kind = "builder"
              /\ r[1].value = None
    /\ builder.sync # None => (Built(builder.sync[1]) =>
                                 builder.sync[1].value[1].mode = "blocking")
    /\ builder.asnyc # None => (Built(builder.asnyc[1]) =>
                                  builder.asnyc[1].value[1].mode = "async")
    /\ (builder.sync # None /\ builder.asnyc # None) =>
         /\ builder.sync[1].kind = builder.asnyc[1].kind
         /\ builder.sync[1].message = builder.asnyc[1].message

\* Both builds of a builder whose identification has whitespace around a
\* visible character have run and have given a client.
C2_Witness ==
    /\ builder.sync # None /\ builder.asnyc # None
    /\ Built(builder.sync[1]) /\ Built(builder.asnyc[1])
    /\ Len(builder.user_agent) >= 2
    /\ IsWhitespace(builder.user_agent[1])

StartedCalls == {c \in CallIds : calls[c].pc # "idle"}

DoneCalls == {c \in CallIds : calls[c].pc = "done"}

\* The calls whose send() has returned.
AnsweredCalls == {c \in CallIds : net[c].sent # None}

IsErrorStatus(status) == status \in 400..599

\* What a fetch returns for what the transport did: `sent` is what send()
\* gave, and `body` is what the read of the body gave, if it was read.
Classified(sent, body) ==
    IF sent = SendFailed THEN Result("reqwest::Error", "", ReqwestError("request", 0), None)
    ELSE IF sent = 404 THEN Result("KrateNotFound", NotFoundMessage, NoCause, None)
    ELSE IF IsErrorStatus(sent)
         THEN Result("OtherKrateError", OtherMessage, ReqwestError("status", sent), None)
    ELSE IF body = None THEN Pending
    ELSE IF body[1].json /\ body[1].versions # None /\ body[1].crate # None
         THEN Result("Ok", "", NoCause, Some(Decode(body[1])))
         ELSE Result("reqwest::Error", "", ReqwestError("decode", 0), None)

\* C3: a fetch, by a client or by a module-level function, whose response
\* has status 404 returns the NotFound error with its fixed message, and
\* the body of that response is never read or decoded.
C3_NotFoundWithoutDecode ==
    \A c \in AnsweredCalls :
        net[c].sent[1] = 404 =>
            /\ calls[c].pc = "done"
            /\ calls[c].result.kind = "KrateNotFound"
            /\ calls[c].result.message
                   = "Crate name is not found. Did you mispell the crate name?"
            /\ calls[c].result.value = None
            /\ calls[c].decodes = 0
            /\ net[c].body = None

\* A module-level get_async has been answered 404 and has returned.
C3_Witness ==
    \E c \in AnsweredCalls :
        /\ net[c].sent[1] = 404
        /\ calls[c].api = "get_async"
        /\ calls[c].pc = "done"

IsClientCall(c) == calls[c].api \in {"SyncKrateClient::get", "AsyncKrateClient::get_async"}

Failed(c) ==
    /\ net[c].sent # None
    /\ \/ net[c].sent[1] = SendFailed
       \/ IsErrorStatus(net[c].sent[1])
       \/ (net[c].body # None /\ ~Decodes(net[c].body[1]))

\* C8: a call to a client's fetch issues exactly one request, to the URL of
\* its name, whatever the outcome; after a send failure, an error status or
\* a decode failure the call has returned that failure and no second
\* request has left.
C8_OneRequestNoRetry ==
    \A c \in StartedCalls :
        IsClientCall(c) =>
            /\ Len(net[c].requests) = 1
            /\ net[c].requests[1].url = <<CRATES_IO_URL, "/", calls[c].crate_name>>
            /\ Failed(c) =>
                   /\ calls[c].pc = "done"
                   /\ calls[c].result.kind \notin {"Ok", "Pending"}
            /\ calls[c].pc = "done" => calls[c].result.kind # "Pending"

\* One client call has failed at send, another after a decode failure, and
\* each has issued its one request.
C8_Witness ==
    \E c, d \in DoneCalls :
        /\ IsClientCall(c) /\ IsClientCall(d)
        /\ net[c].sent = Some(SendFailed)
        /\ net[d].body = Some(NotJsonDoc)
        /\ Len(net[c].requests) = 1 /\ Len(net[d].requests) = 1

AsyncCalls == {c \in StartedCalls : calls[c].api = "AsyncKrateClient::get_async"}

\* C10: with several suspending fetches in flight, in every interleaving,
\* each fetch's request carries its own name and its client's header, its
\* outcome is the one its own response gives, and the clients hold the
\* header they were built with.
C10_FetchesIndependent ==
    /\ \A c \in AsyncCalls :
         /\ net[c].requests =
                <<Request(Url(calls[c].crate_name), clients[calls[c].client[1]].user_agent)>>
         /\ calls[c].pc = "done" =>
                calls[c].result = Classified(net[c].sent[1], net[c].body)
         /\ calls[c].pc # "done" => calls[c].result = Pending
    /\ clients = [k \in ClientIds |-> TestClient(k)]

\* Two suspending fetches of different names on one client: one has
\* returned NotFound while the other, sent before or after it, is still
\* reading its body.
C10_Witness ==
    \E c, d \in AsyncCalls :
        /\ c # d
        /\ calls[c].client = calls[d].client
        /\ calls[c].crate_name # calls[d].crate_name
        /\ calls[c].pc = "json"
        /\ calls[d].pc = "done" /\ calls[d].result.kind = "KrateNotFound"

IsModuleCall(c) == calls[c].api \in {"get", "get_async"}

\* C1: get and get_async, given an identification that is empty or all
\* whitespace, fail with the ConfigError before any client is built and
\* before any request is issued.
C1_ModuleFunctionsValidate ==
    \A c \in StartedCalls :
        (IsModuleCall(c) /\ AllWhitespace(calls[c].user_agent)) =>
            /\ calls[c].pc = "done"
            /\ calls[c].result.kind = "anyhow"
            /\ calls[c].result.message = ConfigMessage
            /\ net[c].requests = <<>>

SameTransport(c, d) ==
    \/ net[c].requests = <<>>
    \/ net[d].requests = <<>>
    \/ (net[c].sent = net[d].sent /\ net[c].body = net[d].body)

\* C9, the clients: a blocking and a suspending client fetch of one name,
\* given the same transport behaviour, request the same URL and return the
\* same outcome.
C9_ClientFetchesAgree ==
    \A c, d \in DoneCalls :
        (/\ calls[c].api = "SyncKrateClient::get"
         /\ calls[d].api = "AsyncKrateClient::get_async"
         /\ calls[c].crate_name = calls[d].crate_name
         /\ net[c].sent = net[d].sent /\ net[c].body = net[d].body) =>
            /\ net[c].requests[1].url = net[d].requests[1].url
            /\ Len(net[c].requests) = Len(net[d].requests)
            /\ calls[c].result = calls[d].result

\* C9: the blocking and the suspending fetch have the same semantics: the
\* clients agree, and get and get_async agree on every name and
\* identification.
C9_SyncAsyncAgree ==
    /\ C9_ClientFetchesAgree
    /\ \A c, d \in DoneCalls :
        (/\ calls[c].api = "get"
         /\ calls[d].api = "get_async"
         /\ calls[c].crate_name = calls[d].crate_name
         /\ calls[c].user_agent = calls[d].user_agent
         /\ SameTransport(c, d)) =>
            /\ Len(net[c].requests) = Len(net[d].requests)
            /\ calls[c].result.kind = calls[d].result.kind
            /\ calls[c].result.message = calls[d].result.message
            /\ calls[c].result.value = calls[d].result.value

\* C6: every record a fetch returns has at least one version, so that
\* get_latest is defined on it.
C6_VersionsNeverEmpty ==
    \A c \in DoneCalls :
        calls[c].result.kind = "Ok" =>
            /\ Len(calls[c].result.value[1].versions) > 0
            /\ ~get_latest(calls[c].result.value[1]).panicked

\* C7: on every decoded record get_latest returns the num of versions[0],
\* whatever the other versions and the crate's max_version and
\* newest_version are.
C7_LatestIsFirstVersion ==
    acc.op = "get_latest" =>
        /\ ~acc.panicked
        /\ Len(krate.versions) > 0
        /\ acc.latest = Some(krate.versions[1].num)

Matches(versions, version) == {i \in 1..Len(versions) : versions[i].num = version}

FirstMatch(versions, version) ==
    CHOOSE i \in Matches(versions, version) :
        \A j \in Matches(versions, version) : i <= j

\* C5: get_features_for_version returns the features of the first version
\* whose num equals the argument, None when no num equals it, and None when
\* that first version has no features, whatever later versions hold.
C5_FeaturesOfFirstMatch ==
    acc.op = "get_features_for_version" =>
        IF Matches(krate.versions, acc.arg) = {}
        THEN acc.features = None
        ELSE acc.features = krate.versions[FirstMatch(krate.versions, acc.arg)].features

====
